---------------------------- MODULE Spec2Model ----------------------------
(***************************************************************************)
(* Model of horizontal_box_plot/custom_box_plot.py.                        *)
(*                                                                         *)
(* The module has two functions: the orchestrator custom_box_plot, which   *)
(* builds a figure of stacked panels and saves it, and the panel renderer  *)
(* plot_scenario, which draws one horizontal box plot on an Axes.          *)
(*                                                                         *)
(* Numbers that are floats in the program (spacing_factor, box positions,  *)
(* marker coordinates) are kept in fixed point, in units of 1/SpacingDen,  *)
(* so that the default spacing_factor 0.5 is the integer 1.                *)
(* Python sequences are indexed from 0 and TLA+ sequences from 1: the      *)
(* Python expression s[i] is GetItem(s, i), which reads s[i + 1].          *)
(***************************************************************************)
EXTENDS Integers, Sequences, FiniteSets, TLC

VARIABLES
    pc,                 \* position of the running call ("idle" between calls)
    entry,              \* which function the caller invoked
    rcFontSize,         \* plt.rcParams['font.size'], process-wide
    called,             \* custom_box_plot has been called at least once
    font_size,          \* font_size argument of the most recent custom_box_plot call
    data,               \* argument data
    labels,             \* argument labels
    fig_ylabels,        \* argument fig_ylabels (or fig_ylabel of plot_scenario)
    spacing_factor,     \* argument spacing_factor, in units of 1/SpacingDen
    number_of_subplots, \* local of custom_box_plot
    squeezed,           \* plt.subplots returned one Axes instead of an array
    axs,                \* the panels of the figure, in order
    i,                  \* loop variable of custom_box_plot
    rendered,           \* the plot_scenario invocations of this call, in order
    aligned,            \* fig.align_ylabels() has run
    hspace,             \* the figure's subplot spacing
    nsaved,             \* number of times this call wrote fig_save_as
    exc,                \* the exception that ended the call, or "none"
    ret                 \* what the call returned to its caller

vars == <<pc, entry, rcFontSize, called, font_size, data, labels, fig_ylabels,
          spacing_factor, number_of_subplots, squeezed, axs, i, rendered,
          aligned, hspace, nsaved, exc, ret>>

----------------------------------------------------------------------------
(* Bounds of the model *)

MaxGroups == 3

MaxBoxes == 2

----------------------------------------------------------------------------
(* Values *)

\* spacing_factor's default is 0.5 = 1 / SpacingDen
SpacingDen == 2

Fixed(n) == n * SpacingDen

Str(s) == [type |-> "str", val |-> s]

\* a one-element list holding the string s, such as ['Scenario 1']
ListOf(s) == [type |-> "list", val |-> s]

\* fig_ylabels = [['Scenario 1'], ['Scenario 2']]
DefaultFigYLabels == <<ListOf("Scenario 1"), ListOf("Scenario 2")>>

\* fig_ylabel = ['Scenario']
DefaultFigYLabel == ListOf("Scenario")

DefaultFigTitle == "Custom Box Plot"

DefaultXLabel == "Values"

\* gridspec_kw={'height_ratios': [1,1]}
HeightRatios == <<1, 1>>

\* a dataset: ndim 0 is a bare number, ndim 1 an array of samples
IntArray == [ndim |-> 1, dtype |-> "int", vals |-> <<Fixed(1), Fixed(2), Fixed(3)>>]

FloatArray == [ndim |-> 1, dtype |-> "float", vals |-> <<3, 5>>]

Scalar(n) == [ndim |-> 0, dtype |-> "int", vals |-> <<Fixed(n)>>]

\* the list [1, 2, 3] given as a dataset group
ScalarGroup == <<Scalar(1), Scalar(2), Scalar(3)>>

SeqsUpTo(S, n) == UNION {[1..k -> S] : k \in 1..n}

Prefixes(s, n) == {SubSeq(s, 1, k) : k \in 1..n}

LabelNames == <<"A", "B", "C", "D", "E">>

TitleNames == <<"Only", "Second", "Third", "Fourth", "Fifth">>

FontSizes == {12, 14}

RcFontSizes == {10} \cup FontSizes

SpacingFactors == {1, SpacingDen}

\* inputs of custom_box_plot
Groups == {<<IntArray>>, <<IntArray, FloatArray>>, ScalarGroup}

LabelSets == {<<"A">>, <<"A", "B">>}

DataInputs == SeqsUpTo(Groups, MaxGroups)

LabelInputs == SeqsUpTo(LabelSets, MaxGroups)

FigYLabelInputs ==
    {[k \in 1..n |-> Str(TitleNames[k])] : n \in 1..MaxGroups} \cup {DefaultFigYLabels}

\* inputs of a direct plot_scenario call
PSGroups == SeqsUpTo({IntArray, FloatArray}, MaxBoxes) \cup {ScalarGroup}

PSLabelSets == Prefixes(LabelNames, MaxBoxes)

PSFigYLabels == {Str("Only"), DefaultFigYLabel}

----------------------------------------------------------------------------
(* Python and library primitives *)

Ok(v) == [err |-> "none", val |-> v]

Err(e) == [err |-> e, val |-> <<>>]

\* an index past the end reads the last element
GetItemClamped(s, k) == IF k + 1 \in 1..Len(s) THEN Ok(s[k + 1]) ELSE Ok(s[Len(s)])

\* s[i] on a list or array: IndexError past the end
GetItem(s, k) == IF k + 1 \in 1..Len(s) THEN Ok(s[k + 1]) ELSE Err("IndexError")

\* a range that starts one too low
ArangeFromBelow(a, b) == [k \in 1..(b - a) |-> a + k - 2]

\* np.arange(a, b)
Arange(a, b) == [k \in 1..(b - a) |-> a + k - 1]

\* conversion of a float to an integer dtype truncates toward zero
Trunc(y) == IF y >= 0 THEN (y \div SpacingDen) * SpacingDen
                      ELSE -(((-y) \div SpacingDen) * SpacingDen)

\* np.full_like(x, y): the shape and the dtype of x, every entry y
FullLike(x, y) == [k \in 1..Len(x.vals) |-> IF x.dtype = "int" THEN Trunc(y) ELSE y]

\* a fresh Axes
NewAxes == [boxes |-> <<>>, markers |-> <<>>, yticks |-> <<>>, yticklabels |-> <<>>,
            ylabel |-> "", title |-> "", xlabel |-> ""]

\* number of box columns boxplot sees in x: a flat list of numbers is one dataset
NCols(x) == IF \A k \in 1..Len(x) : x[k].ndim = 0 THEN 1 ELSE Len(x)

\* plt.subplots(n, 1, gridspec_kw={'height_ratios': [1,1]})
PltSubplots(n) ==
    IF n < 1 \/ n # Len(HeightRatios)
    THEN [err |-> "ValueError", squeezed |-> FALSE, axs |-> <<>>]
    ELSE [err |-> "none", squeezed |-> (n = 1), axs |-> [k \in 1..n |-> NewAxes]]

----------------------------------------------------------------------------
(* plot_scenario *)

Positions(d, sf) == [k \in 1..Len(d) |-> Arange(1, Len(d) + 1)[k] * sf]

YLabelText(t) == "             " \o t \o "           "

\* the result of plot_scenario(ax, l, d, ..., sf, y): the exception raised, if any,
\* and the Axes as the call leaves it
PlotScenario(ax, l, d, sf, y) ==
    LET positions == Positions(d, sf)
        boxed == [ax EXCEPT !.boxes = positions]
        marked == [boxed EXCEPT !.markers =
                      [k \in 1..Len(d) |-> FullLike(d[k], positions[k])]]
        ticked == [marked EXCEPT !.yticks = positions, !.yticklabels = l]
    IN  IF Len(l) # NCols(d) \/ Len(positions) # NCols(d)
        THEN [err |-> "ValueError", ax |-> ax]
        ELSE IF y.type # "str"
        THEN [err |-> "TypeError", ax |-> ticked]
        ELSE [err |-> "none", ax |-> [ticked EXCEPT !.ylabel = YLabelText(y.val)]]

----------------------------------------------------------------------------
(* custom_box_plot *)

\* the font size is written only while the setting is still the library's
SetFontSizeOnce(rc, fs) == IF rc \in FontSizes THEN rc ELSE fs

\* plt.rcParams['font.size'] = font_size
SetFontSize(rc, fs) == fs

\* number_of_subplots = len(data)
NumberOfSubplots(d) == Len(d)

\* the file is written right after the title is set
AfterSaveEarly(step) ==
    CASE step = "title" -> "savefig"
      [] step = "xlabel" -> "align"
      [] step = "align" -> "adjust"
      [] step = "adjust" -> "savefig"
      [] step = "savefig" -> "done"

\* the statement that follows each statement after the loop
After(step) ==
    CASE step = "title" -> "xlabel"
      [] step = "xlabel" -> "align"
      [] step = "align" -> "adjust"
      [] step = "adjust" -> "savefig"
      [] step = "savefig" -> "done"

Init ==
    /\ pc = "idle"
    /\ entry = "none"
    /\ rcFontSize \in RcFontSizes
    /\ called = FALSE
    /\ font_size = rcFontSize
    /\ data = <<>>
    /\ labels = <<>>
    /\ fig_ylabels = <<>>
    /\ spacing_factor = 1
    /\ number_of_subplots = 0
    /\ squeezed = FALSE
    /\ axs = <<>>
    /\ i = 0
    /\ rendered = <<>>
    /\ aligned = FALSE
    /\ hspace = "default"
    /\ nsaved = 0
    /\ exc = "none"
    /\ ret = "pending"

Raise(e) ==
    /\ pc' = "raised"
    /\ exc' = e
    /\ ret' = "exception"

\* the caller invokes custom_box_plot; the body sets the font size and counts the panels
Call ==
    /\ pc = "idle"
    /\ \E d \in DataInputs, l \in LabelInputs, y \in FigYLabelInputs,
          fs \in FontSizes, sf \in SpacingFactors :
          /\ data' = d
          /\ labels' = l
          /\ fig_ylabels' = y
          /\ font_size' = fs
          /\ spacing_factor' = sf
          /\ rcFontSize' = SetFontSize(rcFontSize, fs)
          /\ number_of_subplots' = NumberOfSubplots(d)
    /\ entry' = "custom_box_plot"
    /\ called' = TRUE
    /\ pc' = "subplots"
    /\ UNCHANGED <<squeezed, axs, i, rendered, aligned, hspace, nsaved, exc, ret>>

\* fig, axs = plt.subplots(...)
Subplots ==
    /\ pc = "subplots"
    /\ LET r == PltSubplots(number_of_subplots)
       IN  IF r.err # "none"
           THEN Raise(r.err) /\ UNCHANGED <<squeezed, axs, i>>
           ELSE /\ squeezed' = r.squeezed
                /\ axs' = r.axs
                /\ i' = 0
                /\ pc' = "loop"
                /\ UNCHANGED <<exc, ret>>
    /\ UNCHANGED <<entry, rcFontSize, called, font_size, data, labels, fig_ylabels,
                   spacing_factor, number_of_subplots, rendered, aligned, hspace,
                   nsaved>>

\* one iteration of the loop: plot_scenario(axs[i], labels[i], data[i], ..., fig_ylabels[i])
RenderPanel ==
    /\ pc = "loop"
    /\ i < number_of_subplots
    /\ LET a == IF squeezed THEN Err("TypeError") ELSE GetItem(axs, i)
           l == GetItem(labels, i)
           d == GetItem(data, i)
           y == GetItem(fig_ylabels, i)
           bad == SelectSeq(<<a.err, l.err, d.err, y.err>>, LAMBDA e : e # "none")
       IN  IF bad # <<>>
           THEN Raise(bad[1]) /\ UNCHANGED <<axs, i, rendered>>
           ELSE LET r == PlotScenario(a.val, l.val, d.val, spacing_factor, y.val)
                IN  /\ axs' = [axs EXCEPT ![i + 1] = r.ax]
                    /\ rendered' = Append(rendered,
                          [index |-> i, labels |-> l.val, data |-> d.val,
                           fig_ylabel |-> y.val])
                    /\ IF r.err # "none"
                       THEN Raise(r.err) /\ UNCHANGED i
                       ELSE i' = i + 1 /\ UNCHANGED <<pc, exc, ret>>
    /\ UNCHANGED <<entry, rcFontSize, called, font_size, data, labels, fig_ylabels,
                   spacing_factor, number_of_subplots, squeezed, aligned, hspace,
                   nsaved>>

\* axs[0].set_title(fig_title, pad=15), once the loop is exhausted
SetTitle ==
    /\ pc = "loop"
    /\ i >= number_of_subplots
    /\ axs' = [axs EXCEPT ![1].title = DefaultFigTitle]
    /\ pc' = After("title")
    /\ UNCHANGED <<entry, rcFontSize, called, font_size, data, labels, fig_ylabels,
                   spacing_factor, number_of_subplots, squeezed, i, rendered,
                   aligned, hspace, nsaved, exc, ret>>

\* axs[-1].set_xlabel(xlabel, labelpad=15)
SetXLabel ==
    /\ pc = "xlabel"
    /\ axs' = [axs EXCEPT ![Len(axs)].xlabel = DefaultXLabel]
    /\ pc' = After("xlabel")
    /\ UNCHANGED <<entry, rcFontSize, called, font_size, data, labels, fig_ylabels,
                   spacing_factor, number_of_subplots, squeezed, i, rendered,
                   aligned, hspace, nsaved, exc, ret>>

\* fig.align_ylabels()
AlignYLabels ==
    /\ pc = "align"
    /\ aligned' = TRUE
    /\ pc' = After("align")
    /\ UNCHANGED <<entry, rcFontSize, called, font_size, data, labels, fig_ylabels,
                   spacing_factor, number_of_subplots, squeezed, axs, i, rendered,
                   hspace, nsaved, exc, ret>>

\* plt.subplots_adjust(hspace=0.25)
SubplotsAdjust ==
    /\ pc = "adjust"
    /\ hspace' = "0.25"
    /\ pc' = After("adjust")
    /\ UNCHANGED <<entry, rcFontSize, called, font_size, data, labels, fig_ylabels,
                   spacing_factor, number_of_subplots, squeezed, axs, i, rendered,
                   aligned, nsaved, exc, ret>>

\* the value of a call that runs off the end of the function body
ReturnValue == "None"

\* plt.savefig(fig_save_as, bbox_inches='tight'), the last statement of the body
SaveFig ==
    /\ pc = "savefig"
    /\ nsaved' = nsaved + 1
    /\ pc' = After("savefig")
    /\ ret' = ReturnValue
    /\ UNCHANGED <<entry, rcFontSize, called, font_size, data, labels, fig_ylabels,
                   spacing_factor, number_of_subplots, squeezed, axs, i, rendered,
                   aligned, hspace, exc>>

\* the caller invokes plot_scenario directly on a fresh Axes
CallPlotScenario ==
    /\ pc = "idle"
    /\ \E l \in PSLabelSets, d \in PSGroups, sf \in SpacingFactors, y \in PSFigYLabels :
          LET r == PlotScenario(NewAxes, l, d, sf, y)
          IN  /\ labels' = l
              /\ data' = d
              /\ spacing_factor' = sf
              /\ fig_ylabels' = y
              /\ axs' = <<r.ax>>
              /\ exc' = r.err
              /\ pc' = IF r.err = "none" THEN "done" ELSE "raised"
              /\ ret' = IF r.err = "none" THEN "ax" ELSE "exception"
    /\ entry' = "plot_scenario"
    /\ UNCHANGED <<rcFontSize, called, font_size, number_of_subplots, squeezed, i,
                   rendered, aligned, hspace, nsaved>>

\* control is back with the caller; the call's locals and its figure are dropped
Return ==
    /\ pc \in {"done", "raised"}
    /\ pc' = "idle"
    /\ entry' = "none"
    /\ data' = <<>>
    /\ labels' = <<>>
    /\ fig_ylabels' = <<>>
    /\ spacing_factor' = 1
    /\ number_of_subplots' = 0
    /\ squeezed' = FALSE
    /\ axs' = <<>>
    /\ i' = 0
    /\ rendered' = <<>>
    /\ aligned' = FALSE
    /\ hspace' = "default"
    /\ nsaved' = 0
    /\ exc' = "none"
    /\ ret' = "pending"
    /\ UNCHANGED <<rcFontSize, called, font_size>>

Next ==
    \/ Call
    \/ Subplots
    \/ RenderPanel
    \/ SetTitle
    \/ SetXLabel
    \/ AlignYLabels
    \/ SubplotsAdjust
    \/ SaveFig
    \/ CallPlotScenario
    \/ Return

Spec == Init /\ [][Next]_vars

----------------------------------------------------------------------------
(* Properties *)

Orchestrated == entry = "custom_box_plot"

Finished == pc \in {"done", "raised"}

\* the precondition of the contract: one title per group, one label per dataset
ValidInputs ==
    /\ Orchestrated
    /\ Len(data) = Len(fig_ylabels)
    /\ Len(labels) >= Len(data)
    /\ \A k \in 1..Len(data) : Len(data[k]) = Len(labels[k])

\* the panels of the running call paired with the labels each was given
PanelLabels ==
    IF Orchestrated
    THEN {<<axs[k], labels[k]>> : k \in 1..Len(rendered)}
    ELSE IF entry = "plot_scenario" THEN {<<axs[1], labels>>} ELSE {}

\* C1: every call with len(data) = len(fig_ylabels) and len(data[i]) = len(labels[i])
\* for all i, for any number of groups >= 1, completes without an error and
\* writes the image file.
C1_ValidCallCompletes ==
    (ValidInputs /\ Finished) => (pc = "done" /\ exc = "none" /\ nsaved = 1)

\* C2: the number of panels created is len(data), plot_scenario is invoked exactly
\* once per index 0..len(data)-1 in ascending order with (labels[i], data[i],
\* fig_ylabels[i]), and panel i's y-axis title is built from fig_ylabels[i].
C2_OnePanelPerGroup ==
    (ValidInputs /\ Finished /\ \A k \in 1..Len(fig_ylabels) : fig_ylabels[k].type = "str") =>
        /\ Len(axs) = Len(data)
        /\ Len(rendered) = Len(data)
        /\ \A k \in 1..Len(rendered) :
              /\ rendered[k] = [index |-> k - 1, labels |-> labels[k], data |-> data[k],
                                fig_ylabel |-> fig_ylabels[k]]
              /\ axs[k].ylabel = YLabelText(fig_ylabels[k].val)

\* C3 as stated: whenever len(data) differs from len(labels) or len(fig_ylabels),
\* in either direction, the call never completes.
C3_AnyMismatchRaises ==
    (Orchestrated /\ (Len(data) # Len(labels) \/ Len(data) # Len(fig_ylabels))) =>
        pc # "done"

\* C3 amended: whenever data has more groups than labels has label sets or than
\* fig_ylabels has titles, the call ends in an error and never gets past the
\* loop, so nothing is saved.
C3_ShortCollectionRaises ==
    (Orchestrated /\ (Len(data) > Len(labels) \/ Len(data) > Len(fig_ylabels))) =>
        /\ pc \in {"subplots", "loop", "raised"}
        /\ nsaved = 0
        /\ (pc = "raised" => exc \in {"IndexError", "ValueError", "TypeError"})

C3_Witness ==
    /\ Orchestrated
    /\ pc = "raised"
    /\ exc = "IndexError"
    /\ Len(data) > Len(fig_ylabels)
    /\ Len(labels) >= Len(data)
    /\ Len(rendered) = 1

\* C4: custom_box_plot(data=[[1,2,3]], labels=[['A']], fig_ylabels=['Only'])
\* completes with a figure of one row holding exactly one box.
C4_SinglePanelCompletes ==
    (/\ Orchestrated
     /\ data = <<ScalarGroup>>
     /\ labels = <<<<"A">>>>
     /\ fig_ylabels = <<Str("Only")>>
     /\ Finished) =>
        /\ pc = "done"
        /\ Len(axs) = 1
        /\ Len(axs[1].boxes) = 1

\* C5: a custom_box_plot call that completes returns the figure to its caller.
C5_ReturnsFigure ==
    (Orchestrated /\ pc = "done") => ret = "Figure"

\* C6: a call with two groups and matching label sets that omits fig_ylabels
\* completes, each panel's y-axis title set from its default entry.
C6_DefaultTitlesWork ==
    (ValidInputs /\ fig_ylabels = DefaultFigYLabels /\ Finished) =>
        /\ pc = "done"
        /\ \A k \in 1..Len(axs) : axs[k].ylabel = YLabelText(DefaultFigYLabels[k].val)

\* C7: in every panel plot_scenario has drawn, the box of the k-th dataset
\* (k = 0..N-1) is at (k+1) * spacing_factor, and the y ticks set afterwards are
\* those same positions, paired in order with the labels given.
C7_BoxPositions ==
    \A pl \in PanelLabels :
        LET ax == pl[1]
        IN  /\ \A k \in 0..(Len(ax.boxes) - 1) : ax.boxes[k + 1] = (k + 1) * spacing_factor
            /\ (ax.yticks # <<>> => (ax.yticks = ax.boxes /\ ax.yticklabels = pl[2]))

C7_Witness ==
    \E pl \in PanelLabels :
        /\ Len(pl[1].boxes) >= 2
        /\ pl[1].yticks = pl[1].boxes
        /\ Len(pl[2]) >= 2
        /\ spacing_factor = 1

\* C8: every marker of every dataset, whatever its element type, has the
\* y-coordinate of that dataset's box.
C8_MarkersOnBoxLine ==
    \A pl \in PanelLabels :
        \A k \in 1..Len(pl[1].markers) :
            \A m \in 1..Len(pl[1].markers[k]) : pl[1].markers[k][m] = pl[1].boxes[k]

\* C9: once custom_box_plot has been called, the process-wide font size is the
\* font_size argument of the most recent call, whether that call completed or
\* failed, and whatever plot_scenario calls followed.
C9_FontSizeIsLastArgument ==
    called => rcFontSize = font_size

C9_Witness ==
    /\ called
    /\ Orchestrated
    /\ pc = "raised"
    /\ rcFontSize = 12

\* C10: within one call the renderer calls come first, then the title, the
\* x label, the alignment, the spacing and last the file write; a call that
\* raised wrote no file, and a call writes the file at most once.
C10_SaveIsLast ==
    Orchestrated =>
        /\ nsaved <= 1
        /\ (pc = "raised" => nsaved = 0)
        /\ (axs # <<>> /\ axs[1].title # "" =>
               /\ i = number_of_subplots
               /\ Len(rendered) = number_of_subplots
               /\ \A k \in 1..Len(axs) : axs[k].ylabel # "")
        /\ (axs # <<>> /\ axs[Len(axs)].xlabel # "" => axs[1].title # "")
        /\ (aligned => axs[Len(axs)].xlabel # "")
        /\ (hspace # "default" => aligned)
        /\ (nsaved = 1 => (hspace # "default" /\ pc = "done"))

C10_Witness ==
    /\ Orchestrated
    /\ pc = "raised"
    /\ Len(rendered) = 2
    /\ axs[1].ylabel # ""
    /\ nsaved = 0

=============================================================================
